---- MODULE Spec2Model ----
(***************************************************************************)
(* halo-query, gamespy-crypto binding: the decryptx() entry point          *)
(* (Decryptx in binding.cpp) and the enctypex_wrapper engine it calls.     *)
(*                                                                         *)
(* The state is what a JavaScript caller can see of one process: the       *)
(* Buffers it holds (heap), and the observation of the latest call (its    *)
(* arguments, the error() calls made, the working buffers, the engine      *)
(* invocation and the outcome).  Decryptx itself keeps no state.           *)
(***************************************************************************)
EXTENDS Integers, Sequences, FiniteSets, TLC

VARIABLES
  build,     \* how the addon was compiled: "except" or "noexcept"
  phase,     \* "idle" | "returned" | "aborted"
  heap,      \* Buffers the caller holds: id -> buffer value
  info,      \* arguments of the latest call (Napi::CallbackInfo)
  snap,      \* bytes of the data argument as they were when the call began
  errors,    \* messages passed to error() during the latest call, in order
  alloc,     \* sizes of the three working arrays, <<>> when none was made
  eng,       \* the engine invocation of the latest call: <<>> or <<record>>
  outcome,   \* what the caller observes of the latest call
  repeated   \* whether the latest call repeated the one before it

vars == <<build, phase, heap, info, snap, errors, alloc, eng, outcome, repeated>>

---------------------------------------------------------------------------
\* Bounds of the model.

\* Longest key / validate string, in UTF-16 code units.
MaxStrLen == 1
\* Longest explicitly modelled data buffer, in bytes.
MaxDataLen == 2

\* Width of the engine's `int size` parameter.
IntBits == 32

\* Code units the strings are made of: "A", and U+00E9, which takes two bytes
\* in UTF-8.
Chars == {65, 233}
\* Byte values the buffers are made of.
Bytes == {0, 1}

GiB == 2^30

SeqsUpTo(S, n) == UNION {[1..k -> S] : k \in 0..n}

---------------------------------------------------------------------------
\* JavaScript values.

Undefined == [t |-> "undefined", s |-> <<>>, ref |-> 0]
Number == [t |-> "number", s |-> <<>>, ref |-> 0]
String(s) == [t |-> "string", s |-> s, ref |-> 0]
Buffer(id) == [t |-> "buffer", s |-> <<>>, ref |-> id]

\* A Buffer's contents: the leading bytes one by one, followed by gib GiB of
\* zero bytes (Buffer.alloc zero-fills); gib = 0 for every ordinary buffer.
Buf(bytes, gib) == [bytes |-> bytes, gib |-> gib]

\* A size_t: gib * 2^30 + rem.
Size(gib, rem) == [gib |-> gib, rem |-> rem]

\* Napi::Buffer<char>::Length()
Length(b) == Size(b.gib, Len(b.bytes))

\* std::string::size()
size(s) == Size(0, Len(s))

\* Napi::String::Utf8Value(): the UTF-8 encoding of the UTF-16 code units.
Utf8Unit(c) == IF c < 128 THEN <<c>> ELSE <<192 + (c \div 64), 128 + (c % 64)>>

RECURSIVE Utf8(_)
Utf8(s) == IF s = <<>> THEN <<>> ELSE Utf8Unit(Head(s)) \o Utf8(Tail(s))

\* info[i]: an index past the supplied arguments reads as undefined.
Arg(args, i) == IF i + 1 <= Len(args) THEN args[i + 1] ELSE Undefined

\* A check that takes the empty string for a missing one.
IsString_nonempty(v) == v.t = "string" /\ v.s # <<>>

IsString(v) == v.t = "string"

IsBuffer(v) == v.t = "buffer"

\* The four messages Decryptx passes to error().
MsgCount == "Expected 3 arguments"
MsgKey == "Expected key to be a string"
MsgValidate == "Expected validate to be a string"
MsgData == "Expected data to be a Buffer"

\* Conversion of a size_t to the engine's int: reduction modulo 2^IntBits
\* into -2^(IntBits-1) .. 2^(IntBits-1) - 1.
NarrowToInt(n) ==
  LET q == 2^(IntBits - 30)
      g == n.gib % q
  IN  IF g < q \div 2 THEN g * GiB + n.rem ELSE (g - q) * GiB + n.rem

\* Whether the int i is the size_t n.
IntIsSize(i, n) == n.gib < 2 /\ i = n.gib * GiB + n.rem

\* Whether the int i is at most the size_t n.
IntWithinSize(i, n) == i < 0 \/ n.gib >= 2 \/ i <= n.gib * GiB + n.rem

---------------------------------------------------------------------------
\* The caller's inputs.

Strings == {String(s) : s \in SeqsUpTo(Chars, MaxStrLen)}

\* Ordinary data buffers, and two that Buffer.alloc can make whose length
\* does not fit the engine's int: 2 GiB + 1 and 4 GiB + 1 bytes.
SmallBuffers == {Buf(b, 0) : b \in SeqsUpTo(Bytes, MaxDataLen)}
HugeBuffers == {Buf(<<1>>, 2), Buf(<<1>>, 4)}
DataBuffers == SmallBuffers \cup HugeBuffers

BufIds == 1..3

\* What a caller may pass in each of the first three positions, and as a
\* surplus fourth argument.
ArgVals == Strings \cup {Number} \cup {Buffer(1)}
Calls ==
  UNION {[1..n -> ArgVals] : n \in 0..3}
    \cup {a \o <<Number>> : a \in [1..3 -> ArgVals]}

---------------------------------------------------------------------------
\* Raising a JavaScript exception from native code.

Running == [ctl |-> "run", pending |-> <<>>, errors |-> <<>>]

\* Napi::Error::ThrowAsJavaScriptException(): napi_throw makes the error the
\* pending exception and returns to the native caller.  With an exception
\* already pending napi_throw fails: a build with C++ exceptions leaves
\* Decryptx by a C++ throw that carries the pending exception, a build
\* without them ends the process (Napi::Error::Fatal).
ThrowAsJavaScriptException(st, msg) ==
  IF st.pending = <<>> THEN [st EXCEPT !.pending = <<msg>>]
  ELSE IF build = "except" THEN [st EXCEPT !.ctl = "unwind"]
  ELSE [st EXCEPT !.ctl = "fatal"]

\* error(env, msg): raises the TypeError and returns.
error(st, msg) ==
  IF st.ctl # "run" THEN st
  ELSE ThrowAsJavaScriptException([st EXCEPT !.errors = Append(@, msg)], msg)

\* The four checks at the head of Decryptx, one after the other.
CheckArguments(args) ==
  LET s1 == IF Len(args) < 3 THEN error(Running, MsgCount) ELSE Running
      s2 == IF ~IsString(Arg(args, 0)) THEN error(s1, MsgKey) ELSE s1
      s3 == IF ~IsString(Arg(args, 1)) THEN error(s2, MsgValidate) ELSE s2
      s4 == IF ~IsBuffer(Arg(args, 2)) THEN error(s3, MsgData) ELSE s3
  IN  s4

\* A failed N-API call inside a conversion (NAPI_THROW_IF_FAILED): the pending
\* exception, when there is one, stays the exception; a build with C++
\* exceptions leaves Decryptx, a build without carries on with a default
\* value.
MsgNapi == "Invalid argument"
NapiFailed(st) ==
  LET p == IF st.pending = <<>> THEN <<MsgNapi>> ELSE st.pending
  IN  IF st.ctl # "run" THEN st
      ELSE IF build = "except" THEN [st EXCEPT !.ctl = "unwind", !.pending = p]
      ELSE [st EXCEPT !.pending = p]

\* info[i].As<Napi::String>().Utf8Value()
AsUtf8(st, v) ==
  IF IsString(v) THEN [st |-> st, val |-> Utf8(v.s)]
  ELSE [st |-> NapiFailed(st), val |-> <<>>]

\* info[2].As<Napi::Buffer<char>>(), its Data() and its Length()
AsBuffer(st, v) ==
  IF IsBuffer(v) THEN [st |-> st, val |-> heap[v.ref]]
  ELSE [st |-> NapiFailed(st), val |-> Buf(<<>>, 0)]

---------------------------------------------------------------------------
\* The working arrays and the engine.

\* The first n bytes of a buffer.
Take(b, n) ==
  Buf([i \in 1..n |-> IF i <= Len(b.bytes) THEN b.bytes[i] ELSE 0], 0)

\* unsigned char mutable_key[key.size()] filled by memcpy(.., key.size()),
\* and the same for validate.
CopyString(s) == SubSeq(s, 1, Len(s))

\* A working array that is not filled anew and still holds what the call
\* before left in it.
CopyData_stale(d) == IF eng # <<>> THEN eng[1].out ELSE Buf(SubSeq(d.bytes, 1, Len(d.bytes)), d.gib)

\* unsigned char mutable_data[data.Length()] filled by
\* memcpy(.., data.Data(), data.Length()).
CopyData(d) == Buf(SubSeq(d.bytes, 1, Len(d.bytes)), d.gib)

\* The engine handed data.Data() itself.
EngineBuffer_inplace(ref) == ref

\* The memory whose address is handed to the engine as its data argument:
\* 0 is the array mutable_data on Decryptx's stack, an id is a caller's Buffer.
EngineBuffer(ref) == 0

\* An array of n bytes on the stack: one longer than any stack the process can
\* have may end the process, or not (the stack limit is the platform's).
MayOverflowStack(n) == n.gib > 0

\* enctypex_wrapper(key, validate, data, size): decodes data in place and
\* returns the decoded length, at most size, or -1.  It touches the first size
\* bytes of data only.  Which result it gives is the engine's business; asked
\* again what the latest invocation asked, it answers the same.
EngineReach(d, n) == IF n < 0 THEN 0 ELSE IF n < Len(d.bytes) THEN n ELSE Len(d.bytes)

enctypex_wrapper(k, v, d, n) ==
  LET m == EngineReach(d, n)
      again == eng # <<>> /\ eng[1].key = k /\ eng[1].validate = v
                 /\ eng[1].data = d /\ eng[1].size = n
  IN  IF again THEN {[ret |-> eng[1].ret, out |-> eng[1].out]}
      ELSE {[ret |-> r, out |-> Buf(f \o SubSeq(d.bytes, m + 1, Len(d.bytes)), d.gib)] :
              r \in (-1)..m, f \in [1..m -> Bytes]}

\* The sentinel mistaken for zero.
IsFailure_zero(end_size) == end_size = 0

\* if (end_size == -1) return env.Null();
IsFailure(end_size) == end_size = -1

\* A copy of the whole working array, not trimmed to end_size.
BufferCopy_whole(src, end_size) == Take(src, Len(src.bytes))

\* Napi::Buffer<char>::Copy(env, mutable_data, end_size): a new Buffer holding
\* a copy of the first end_size bytes.
BufferCopy(src, end_size) == Take(src, end_size)

\* The Buffer object Buffer::Copy returns: a new one, never one the caller has.
NewBufferId ==
  CHOOSE id \in BufIds : id \notin DOMAIN heap /\ \A j \in BufIds : j < id => j \in DOMAIN heap

---------------------------------------------------------------------------
\* Observations.

NoOutcome == [kind |-> "none", msg |-> "", ref |-> 0]
Thrown(msg) == [kind |-> "throw", msg |-> msg, ref |-> 0]
Null == [kind |-> "null", msg |-> "", ref |-> 0]
Returned(id) == [kind |-> "buffer", msg |-> "", ref |-> id]
Aborted == [kind |-> "abort", msg |-> "", ref |-> 0]

\* The Buffer the previous call returned, which the caller lets go of when it
\* calls again.
OldResult == IF outcome.kind = "buffer" THEN {outcome.ref} ELSE {}

DataRef(args) == IF IsBuffer(Arg(args, 2)) THEN Arg(args, 2).ref ELSE 0

Kept == [id \in DOMAIN heap \ OldResult |-> heap[id]]

\* The call leaves Decryptx before the working arrays exist, or ends the
\* process.
Leave(args, st, sizes) ==
  /\ info' = args
  /\ snap' = IF IsBuffer(Arg(args, 2)) THEN <<heap[DataRef(args)]>> ELSE <<>>
  /\ errors' = st.errors
  /\ alloc' = sizes
  /\ eng' = <<>>
  /\ heap' = Kept
  /\ IF st.ctl = "unwind"
       THEN phase' = "returned" /\ outcome' = Thrown(st.pending[1])
       ELSE phase' = "aborted" /\ outcome' = Aborted

\* Decryptx(info), the whole native function.
Decryptx(args) ==
  LET c == CheckArguments(args)
      k == AsUtf8(c, Arg(args, 0))
      v == AsUtf8(k.st, Arg(args, 1))
      d == AsBuffer(v.st, Arg(args, 2))
      st == d.st
      key == k.val
      validate == v.val
      data == d.val
      sizes == <<size(key), size(validate), Length(data)>>
      mutable_key == CopyString(key)
      mutable_validate == CopyString(validate)
      mutable_data == CopyData(data)
      n == NarrowToInt(Length(data))
      at == EngineBuffer(DataRef(args))
  IN  IF st.ctl # "run" THEN Leave(args, st, <<>>)
      ELSE
        \/ /\ MayOverflowStack(Length(data))
           /\ Leave(args, [st EXCEPT !.ctl = "fatal"], sizes)
        \/ \E e \in enctypex_wrapper(mutable_key, mutable_validate, mutable_data, n) :
             LET end_size == e.ret
                 made == ~IsFailure(end_size) /\ st.pending = <<>>
                 id == NewBufferId
                 touched == IF at \in DOMAIN Kept THEN [Kept EXCEPT ![at] = e.out] ELSE Kept
             IN  /\ info' = args
                 /\ snap' = IF IsBuffer(Arg(args, 2)) THEN <<heap[DataRef(args)]>> ELSE <<>>
                 /\ errors' = st.errors
                 /\ alloc' = sizes
                 /\ eng' = <<[key |-> mutable_key, validate |-> mutable_validate,
                              data |-> mutable_data, size |-> n,
                              ret |-> e.ret, out |-> e.out]>>
                 /\ phase' = "returned"
                 /\ heap' = IF made
                              THEN [j \in DOMAIN touched \cup {id} |->
                                      IF j = id THEN BufferCopy(e.out, end_size) ELSE touched[j]]
                              ELSE touched
                 /\ outcome' = IF st.pending # <<>> THEN Thrown(st.pending[1])
                               ELSE IF IsFailure(end_size) THEN Null
                               ELSE Returned(id)

---------------------------------------------------------------------------
\* The caller.

Init ==
  /\ build \in {"except", "noexcept"}
  /\ phase = "idle"
  /\ heap \in {[id \in {1} |-> b] : b \in DataBuffers}
  /\ info = <<>>
  /\ snap = <<>>
  /\ errors = <<>>
  /\ alloc = <<>>
  /\ eng = <<>>
  /\ outcome = NoOutcome
  /\ repeated = FALSE

\* decryptx(...args)
Call ==
  /\ phase = "idle"
  /\ \E args \in Calls : Decryptx(args)
  /\ repeated' = FALSE
  /\ UNCHANGED build

\* The same call once more, with the same argument values.
Repeat ==
  /\ phase = "returned"
  /\ Decryptx(info)
  /\ repeated' = TRUE
  /\ UNCHANGED build

\* The caller stores a byte in a Buffer it holds, between calls.
CallerWrite ==
  /\ phase = "idle"
  /\ \E id \in DOMAIN heap : \E i \in 1..Len(heap[id].bytes) : \E b \in Bytes :
       heap' = [heap EXCEPT ![id].bytes[i] = b]
  /\ UNCHANGED <<build, phase, info, snap, errors, alloc, eng, outcome, repeated>>

\* The caller is done with the latest call and its result.
Forget ==
  /\ phase = "returned"
  /\ phase' = "idle"
  /\ heap' = Kept
  /\ info' = <<>>
  /\ snap' = <<>>
  /\ errors' = <<>>
  /\ alloc' = <<>>
  /\ eng' = <<>>
  /\ outcome' = NoOutcome
  /\ repeated' = FALSE
  /\ UNCHANGED build

Next == Call \/ Repeat \/ CallerWrite \/ Forget

Spec == Init /\ [][Next]_vars

---------------------------------------------------------------------------
\* What the claims speak of.

Ended == phase # "idle"

\* The kinds of the values passed, as the caller knows them.
KeyOk == Arg(info, 0).t = "string"
ValidateOk == Arg(info, 1).t = "string"
DataOk == Arg(info, 2).t = "buffer"

\* key, validate and data are there and of the right kind.
ValidArgs == Len(info) >= 3 /\ KeyOk /\ ValidateOk /\ DataOk

\* The messages of the preconditions the call violates.
Violated ==
  (IF Len(info) < 3 THEN {MsgCount} ELSE {})
    \cup (IF KeyOk THEN {} ELSE {MsgKey})
    \cup (IF ValidateOk THEN {} ELSE {MsgValidate})
    \cup (IF DataOk THEN {} ELSE {MsgData})

Invoked == eng # <<>>

\* Buffers in the caller's hands that a call returned.
Results == DOMAIN heap \ {1}

\* C1: a call that violates a precondition raises the failure, allocates no
\* working buffer and never invokes the engine.
C1_RejectedBeforeAnyWork ==
  (Ended /\ Violated # {}) => (errors # <<>> /\ alloc = <<>> /\ ~Invoked)

\* C2: a valid call in which the engine returns -1 yields the null result,
\* raises no failure and constructs no result buffer.
C2_EngineFailureIsNull ==
  (Ended /\ ValidArgs /\ Invoked /\ eng[1].ret = -1) =>
    (phase = "returned" /\ outcome = Null /\ errors = <<>> /\ Results = {})

C2_Witness ==
  /\ phase = "returned" /\ ValidArgs /\ Invoked /\ eng[1].ret = -1
  /\ Len(eng[1].data.bytes) > 0 /\ outcome = Null

\* C3: a valid call in which the engine returns r >= 0 returns a buffer of
\* exactly r bytes, equal byte for byte to the first r bytes of the working
\* data buffer as the engine left it.
C3_ResultIsPrefixOfDecoded ==
  (Ended /\ ValidArgs /\ Invoked /\ eng[1].ret >= 0) =>
    /\ phase = "returned" /\ outcome.kind = "buffer" /\ outcome.ref \in DOMAIN heap
    /\ Length(heap[outcome.ref]) = Size(0, eng[1].ret)
    /\ \A i \in 1..eng[1].ret : heap[outcome.ref].bytes[i] = eng[1].out.bytes[i]

C3_Witness ==
  /\ phase = "returned" /\ ValidArgs /\ Invoked
  /\ eng[1].ret >= 1 /\ eng[1].ret < Len(eng[1].out.bytes)
  /\ eng[1].out # eng[1].data
  /\ outcome.kind = "buffer"

\* C4: a call whose number of arguments is not exactly three is rejected with
\* the failure that cites the argument count.
C4_ExactlyThreeArguments ==
  (Ended /\ Len(info) # 3) => (outcome.kind = "throw" /\ outcome.msg = MsgCount)

\* C5: a call with three arguments of which one or more has the wrong kind ends
\* in a failure that names a violated argument, the one violated when there is
\* just one; the four descriptions differ from one another.
C5_FailureNamesViolatedArgument ==
  /\ Cardinality({MsgCount, MsgKey, MsgValidate, MsgData}) = 4
  /\ (Ended /\ Len(info) = 3 /\ Violated # {}) =>
       (outcome.kind = "throw" /\ outcome.msg \in Violated)

\* C6: every call ends in exactly one of a thrown failure (just when a
\* precondition is violated), the null result (just when the call is valid and
\* the engine returned -1) or a buffer (just when the call is valid and the
\* engine returned r >= 0).
C6_ThreeExclusiveOutcomes ==
  Ended =>
    /\ outcome.kind \in {"throw", "null", "buffer"}
    /\ outcome.kind = "throw" <=> Violated # {}
    /\ outcome.kind = "null" <=> (Violated = {} /\ Invoked /\ eng[1].ret = -1)
    /\ outcome.kind = "buffer" <=> (Violated = {} /\ Invoked /\ eng[1].ret >= 0)

\* C7: after a call the caller's data buffer holds the bytes it held before,
\* key and validate are the values passed, and the returned buffer is a new
\* one: not the caller's data buffer, not the working array.
C7_MutationNeverEscapes ==
  (phase = "returned" /\ ValidArgs /\ outcome.kind \in {"null", "buffer"}) =>
    /\ DataRef(info) \in DOMAIN heap
    /\ heap[DataRef(info)] = snap[1]
    /\ eng[1].key = Utf8(Arg(info, 0).s) /\ eng[1].validate = Utf8(Arg(info, 1).s)
    /\ outcome.kind = "buffer" =>
         (outcome.ref \in Results /\ outcome.ref # DataRef(info) /\ outcome.ref # 0)

C7_Witness ==
  /\ phase = "returned" /\ ValidArgs /\ outcome.kind = "buffer"
  /\ eng[1].out # eng[1].data
  /\ heap[DataRef(info)] = snap[1]
  /\ heap[outcome.ref] # Take(snap[1], eng[1].ret)

C10_LengthPassedIsDataLength ==
  (Ended /\ ValidArgs /\ Invoked) =>
    /\ eng[1].size >= 0
    /\ IntIsSize(eng[1].size, Length(snap[1]))
    /\ IntWithinSize(eng[1].size, alloc[3])
    /\ alloc = <<size(Utf8(Arg(info, 0).s)), size(Utf8(Arg(info, 1).s)), Length(snap[1])>>
    /\ eng[1].key = Utf8(Arg(info, 0).s)
    /\ eng[1].validate = Utf8(Arg(info, 1).s)
    /\ eng[1].data = snap[1]

====
